---- MODULE Spec2Model ----
(***************************************************************************)
(* Fassaden-Viewer: the material appearance model (createMaterial), the    *)
(* model component that applies it (CustomModel) and the scene controller  *)
(* (SceneController: findFacadeMesh, handleReset, handleZoom,              *)
(* toggleClipping) together with the parent state it publishes to          *)
(* (FacadeViewer.handleSectionUpdate).                                     *)
(*                                                                         *)
(* Numbers.  The program computes in IEEE doubles; the model computes in   *)
(* exact rationals, written as integers over a common denominator:         *)
(*   - shading quantities (colour channels, roughness, metalness,          *)
(*     envMapIntensity) are integers over Scale, chosen so that every      *)
(*     product and quotient createMaterial forms is exact;                 *)
(*   - lengths are integers over LenUnit (1 world unit = LenUnit).         *)
(***************************************************************************)
EXTENDS Integers, Sequences, FiniteSets, TLC

VARIABLES
    woodType,         \* FacadeViewer: woodControls.Holzart
    surface,          \* FacadeViewer: woodControls.Oberfläche
    age,              \* FacadeViewer: ageControls["Alter (Jahre)"]
    treatment,        \* FacadeViewer: selectedTreatment
    finishColor,      \* FacadeViewer: selectedFinishColor (NoColor = undefined)
    effectPending,    \* FacadeViewer: the finish-colour effect has yet to run
    selectedModel,    \* FacadeViewer: selectedModel, an index into MODELS
    modelMats,        \* material of each mesh of the loaded model, traversal order
    background,       \* the SphericalBackground mesh is mounted and visible
    bgMat,            \* material of the background sphere mesh
    clippingEnabled,  \* SceneController: clippingEnabled
    closureClipping,  \* the clippingEnabled the attached handlers closed over
    sectionPoints,    \* FacadeViewer: sectionPoints
    panelVisible,     \* FacadeViewer: clippingEnabled (SectionOutlinePanel.visible)
    cameraPos,        \* camera.position
    cameraDir,        \* unit vector from the look-at point to the camera
    controlsTarget,   \* OrbitControls.target
    lastOp            \* history: the last operation and what it met

vars == <<woodType, surface, age, treatment, finishColor, effectPending,
          selectedModel, modelMats, background, bgMat, clippingEnabled,
          closureClipping, sectionPoints, panelVisible, cameraPos, cameraDir, controlsTarget,
          lastOp>>

inputVars == <<woodType, surface, age, treatment, finishColor, effectPending>>
sceneVars == <<selectedModel, background, bgMat>>
sectionVars == <<clippingEnabled, closureClipping, sectionPoints, panelVisible>>
cameraVars == <<cameraPos, cameraDir, controlsTarget>>

(***************************************************************************)
(* Arithmetic helpers.                                                     *)
(***************************************************************************)
\* `const x = v; ...`: v is evaluated once and the rest reads its value.
Bind(v, F(_)) == CHOOSE r \in {F(x) : x \in {v}} : TRUE

Min(a, b) == IF a < b THEN a ELSE b
Max(a, b) == IF a > b THEN a ELSE b
Abs(a) == IF a < 0 THEN 0 - a ELSE a

\* Denominator of every shading quantity: 1.0 = Scale.  Divisible by 100
\* (two-decimal literals), 255 (hex channels), 20 and 45 (blend weights).
Scale == 45900 * 100

\* A literal given in hundredths, e.g. 0.65 = H(65).
H(n) == n * (Scale \div 100)

(***************************************************************************)
(* constants.ts                                                            *)
(***************************************************************************)
WOOD_TYPES ==
    ("Fichte/Tanne" :> "spruce") @@ ("Lärche" :> "larch") @@ ("Douglasie" :> "douglas")

SURFACE_TYPES ==
    ("Geschliffen" :> "smooth") @@ ("Sägerau" :> "rough") @@
    ("Gerillt" :> "grooved") @@ ("Gehobelt" :> "planed")

WOOD_COLORS ==
    ("spruce" :> <<H(80), H(70), H(50)>>) @@
    ("larch" :> <<H(75), H(60), H(40)>>) @@
    ("douglas" :> <<H(70), H(50), H(30)>>)

TREATMENT_TYPES ==
    ("Unbehandelt" :> "untreated") @@ ("Vorvergraut" :> "pre_aged") @@
    ("Lasur (UV-Schutz)" :> "glazed") @@ ("Deckend (Pigmentiert)" :> "opaque") @@
    ("Hydrophobiert" :> "hydrophobic") @@ ("Thermisch behandelt" :> "thermo")

\* A colour string "#rrggbb" is the sequence of its six hex digits' values;
\* undefined (and the empty string, equally falsy) is the empty sequence.
NoColor == <<>>

\* Palettes in key order (Object.keys order = insertion order).
LASUR_COLORS == <<
    <<12, 4, 10, 4, 8, 4>>,     \* Natur      #c4a484
    <<14, 3, 10, 8, 5, 7>>,     \* Honig      #e3a857
    <<6, 5, 4, 3, 2, 1>>,       \* Nussbaum   #654321
    <<8, 11, 7, 3, 5, 5>>,      \* Eiche      #8b7355
    <<4, 10, 2, 9, 3, 2>> >>    \* Palisander #4a2932

PIGMENT_COLORS == <<
    <<15, 5, 15, 5, 15, 5>>,    \* Weiß       #f5f5f5
    <<13, 3, 13, 3, 13, 3>>,    \* Hellgrau   #d3d3d3
    <<3, 8, 3, 8, 3, 8>>,       \* Anthrazit  #383838
    <<1, 10, 1, 10, 1, 10>>,    \* Schwarz    #1a1a1a
    <<6, 5, 4, 3, 2, 1>>,       \* Braun      #654321
    <<12, 6, 6, 11, 3, 13>> >>  \* Terracotta #c66b3d

Range(s) == {s[i] : i \in DOMAIN s}

(***************************************************************************)
(* three.js Color, as createMaterial uses it.                              *)
(***************************************************************************)
\* new Color("#rrggbb"): each channel is its byte over 255.
ColorOfHex(hex) ==
    << (16 * hex[1] + hex[2]) * (Scale \div 255),
       (16 * hex[3] + hex[4]) * (Scale \div 255),
       (16 * hex[5] + hex[6]) * (Scale \div 255) >>

\* Color.lerp(target, num/den): c += (target - c) * alpha, per channel, unclamped.
lerp(c, target, num, den) ==
    [i \in 1..3 |-> c[i] + ((target[i] - c[i]) * num) \div den]

\* Color.multiplyScalar(num/den)
multiplyScalar(c, num, den) == [i \in 1..3 |-> (c[i] * num) \div den]

(***************************************************************************)
(* createMaterial (utils/materialUtils.ts), stage by stage.                *)
(***************************************************************************)
\* The species stage with "larch" as the fallback key.
BaseStageLarchFallback(w) ==
    LET woodKey == IF w \in DOMAIN WOOD_TYPES THEN WOOD_TYPES[w] ELSE "larch"
    IN  [color |-> WOOD_COLORS[woodKey],
         roughness |-> H(65), metalness |-> H(0), envMapIntensity |-> H(100)]

\* Lines 20-31: species key with its fallback, base colour, base triple.
BaseStage(w) ==
    LET woodKey == IF w \in DOMAIN WOOD_TYPES THEN WOOD_TYPES[w] ELSE "spruce"
    IN  [color |-> WOOD_COLORS[woodKey],
         roughness |-> H(65), metalness |-> H(0), envMapIntensity |-> H(100)]

\* Lines 33-56: the surface switch overwrites the triple; no default case.
SurfaceStage(mat, s) ==
    LET surfaceKey == IF s \in DOMAIN SURFACE_TYPES THEN SURFACE_TYPES[s] ELSE "none"
    IN  CASE surfaceKey = "rough" ->
               [mat EXCEPT !.roughness = H(90), !.metalness = H(2),
                           !.envMapIntensity = H(50)]
          [] surfaceKey = "grooved" ->
               [mat EXCEPT !.roughness = H(75), !.metalness = H(5),
                           !.envMapIntensity = H(80)]
          [] surfaceKey = "planed" ->
               [mat EXCEPT !.roughness = H(40), !.metalness = H(10),
                           !.envMapIntensity = H(120)]
          [] surfaceKey = "smooth" ->
               [mat EXCEPT !.roughness = H(55), !.metalness = H(8),
                           !.envMapIntensity = H(100)]
          [] OTHER -> mat

\* Lines 58-102: the treatment switch, on the running state.
TreatmentStage(mat, t, fc) ==
    CASE t = "Vorvergraut" ->
           [color |-> lerp(mat.color, <<H(75), H(75), H(77)>>, 7, 10),
            roughness |-> Min(mat.roughness + H(15), H(100)),
            metalness |-> Max(mat.metalness - H(2), 0),
            envMapIntensity |-> (mat.envMapIntensity * 7) \div 10]
      [] t = "Lasur (UV-Schutz)" ->
           IF fc # NoColor
           THEN [color |-> lerp(mat.color, ColorOfHex(fc), 4, 10),
                 roughness |-> Max(mat.roughness - H(10), 0),
                 metalness |-> Min(mat.metalness + H(5), H(100)),
                 envMapIntensity |-> (mat.envMapIntensity * 12) \div 10]
           ELSE mat
      [] t = "Deckend (Pigmentiert)" ->
           IF fc # NoColor
           THEN [color |-> lerp(mat.color, ColorOfHex(fc), 85, 100),
                 roughness |-> Max(mat.roughness - H(20), 0),
                 metalness |-> Min(mat.metalness + H(8), H(100)),
                 envMapIntensity |-> (mat.envMapIntensity * 13) \div 10]
           ELSE mat
      [] t = "Hydrophobiert" ->
           [color |-> multiplyScalar(mat.color, 95, 100),
            roughness |-> Max(mat.roughness - H(15), 0),
            metalness |-> Min(mat.metalness + H(10), H(100)),
            envMapIntensity |-> (mat.envMapIntensity * 14) \div 10]
      [] t = "Thermisch behandelt" ->
           [color |-> lerp(mat.color, <<H(30), H(20), H(15)>>, 6, 10),
            roughness |-> Min(mat.roughness + H(10), H(100)),
            metalness |-> Min(mat.metalness + H(6), H(100)),
            envMapIntensity |-> (mat.envMapIntensity * 9) \div 10]
      [] OTHER -> mat

\* agingIntensity with the treatment's multiplier left out (a plausible slip).
agingIntensity45Unscaled(a, t) == 5 * Min(a - 1, 9)

\* Lines 106-119: agingIntensity, in 45ths.  agingFactor = min((age-1)/9, 1)
\* is 5*min(age-1, 9)/45; the treatment scales it by 1.2, 0.6, 0.4 or 1.
agingIntensity45(a, t) ==
    LET k == Min(a - 1, 9)
    IN  IF t = "Vorvergraut" THEN 6 * k
        ELSE IF t = "Lasur (UV-Schutz)" \/ t = "Hydrophobiert" THEN 3 * k
        ELSE IF t = "Deckend (Pigmentiert)" THEN 2 * k
        ELSE 5 * k

\* The aging stage with the clamps of lines 122-123 left out.
AgingStageUnclamped(mat, a, t) ==
    IF a > 1
    THEN LET n == agingIntensity45(a, t)
         IN  [color |-> lerp(mat.color, <<H(70), H(70), H(72)>>, n, 45),
              roughness |-> mat.roughness + (Scale \div 150) * n,
              metalness |-> mat.metalness - (Scale \div 900) * n,
              envMapIntensity |-> (mat.envMapIntensity * (150 - n)) \div 150]
    ELSE mat

\* Lines 104-125: the aging stage, only when age > 1.
AgingStage(mat, a, t) ==
    IF a > 1
    THEN LET n == agingIntensity45(a, t)
         IN  [color |-> lerp(mat.color, <<H(70), H(70), H(72)>>, n, 45),
              roughness |-> Min(mat.roughness + (Scale \div 150) * n, H(100)),
              metalness |-> Max(mat.metalness - (Scale \div 900) * n, 0),
              envMapIntensity |-> (mat.envMapIntensity * (150 - n)) \div 150]
    ELSE mat

\* The treatment switch placed before the surface switch.
TreatedStateSwapped(w, s, t, fc) == SurfaceStage(TreatmentStage(BaseStage(w), t, fc), s)

\* The state after the treatment switch (line 102).
TreatedState(w, s, t, fc) == TreatmentStage(SurfaceStage(BaseStage(w), s), t, fc)

createMaterial(w, s, a, t, fc) == AgingStage(TreatedState(w, s, t, fc), a, t)

(***************************************************************************)
(* Geometry.  A vertex is <<x, y, z>> in LenUnit-ths of a world unit.      *)
(***************************************************************************)
LenUnit == 1000 * 100

\* A box mesh given by its extent, as its eight corners.
BoxVerts(x0, x1, y0, y1, z0, z1) ==
    << <<x0, y0, z0>>, <<x1, y0, z0>>, <<x1, y0, z1>>, <<x0, y0, z1>>,
       <<x0, y1, z0>>, <<x1, y1, z0>>, <<x1, y1, z1>>, <<x0, y1, z1>> >>

\* The model assets the viewer can load: each a sequence of meshes in
\* traversal order, each mesh the sequence of its position attribute.
\*   1  an asset without any mesh
\*   2  a wall panel 2 x 3 x 0.2
\*   3  a low sill 2 x 0.5 x 0.2 whose top face carries a repeated corner and
\*      a corner repeated 0.00002 off (shared vertices of adjacent triangles)
\*   4  a panel lying flat in the XZ plane (no extent in Y)
\*   5  two panels of equal footprint area, 1 x 0.5 and 0.5 x 1
\*   6  a gable 8 wide: a base rectangle 8 x 2 and one apex 0.5 above it
\*   7  a sill 2 x 0.495 x 0.2 (its top 0.005 below bottom + 0.5)
\*   8  a sill 2 x 0.4 x 0.2 (its top 0.1 below bottom + 0.5)
\*   9  a post 0.2 x 0.5 x 0.2 (a square footprint)
\*  10  a sill 2 x 0.5 x 0.2 whose top face carries two seam vertices
\*      0.00002 either side of x = 0
\*  11  a return wall 0.2 x 0.5 x 2 (ten times as deep as it is wide)
MODELS == <<
    << >>,
    << BoxVerts(-100000, 100000, 0, 300000, -10000, 10000) >>,
    << BoxVerts(-100000, 100000, 0, 50000, -10000, 10000)
         \o << <<100000, 50000, 10000>>, <<100002, 50000, 10000>> >> >>,
    << << <<-100000, 0, -100000>>, <<100000, 0, -100000>>,
          <<100000, 0, 100000>>, <<-100000, 0, 100000>> >> >>,
    << BoxVerts(-100000, 0, 0, 50000, 0, 20000),
       BoxVerts(0, 50000, 0, 100000, 0, 20000) >>,
    << << <<-400000, 0, -100000>>, <<400000, 0, -100000>>,
          <<400000, 0, 100000>>, <<-400000, 0, 100000>>, <<0, 50000, 0>> >> >>,
    << BoxVerts(-100000, 100000, 0, 49500, -10000, 10000) >>,
    << BoxVerts(-100000, 100000, 0, 40000, -10000, 10000) >>,
    << BoxVerts(-10000, 10000, 0, 50000, -10000, 10000) >>,
    << BoxVerts(-100000, 100000, 0, 50000, -10000, 10000)
         \o << <<-2, 50000, 10000>>, <<2, 50000, 10000>> >> >>,
    << BoxVerts(-10000, 10000, 0, 50000, -100000, 100000) >> >>

\* SphericalBackground: sphereGeometry of radius 50 * scale at the origin
\* (scale 1, vertical position 0: the controls' initial values), given by
\* its six axis-extreme vertices.
SphereRadius == 50
SphereVerts ==
    LET r == SphereRadius * LenUnit
    IN  << <<0, 0 - r, 0>>, <<0 - r, 0, 0>>, <<0, 0, 0 - r>>,
           <<0, 0, r>>, <<r, 0, 0>>, <<0, r, 0>> >>

SeqMin(s, k) == CHOOSE m \in {s[i][k] : i \in DOMAIN s} :
                    \A j \in DOMAIN s : m <= s[j][k]
SeqMax(s, k) == CHOOSE m \in {s[i][k] : i \in DOMAIN s} :
                    \A j \in DOMAIN s : m >= s[j][k]

\* CustomModel's positioning effect (part_004 lines 47-62): the model is
\* moved so that the centre of its bounding box is at height 0.
ModelOffsetY(m) ==
    LET all == UNION {{MODELS[m][i][j][2] : j \in DOMAIN MODELS[m][i]} :
                        i \in DOMAIN MODELS[m]}
        lo == CHOOSE y \in all : \A z \in all : y <= z
        hi == CHOOSE y \in all : \A z \in all : y >= z
    IN  IF all = {} THEN 0 ELSE 0 - ((lo + hi) \div 2)

\* tempVec3.applyMatrix4(mesh.matrixWorld): the world position of a vertex.
WorldVerts(m, i) ==
    LET dy == ModelOffsetY(m)
    IN  [j \in DOMAIN MODELS[m][i] |->
            <<MODELS[m][i][j][1], MODELS[m][i][j][2] + dy, MODELS[m][i][j][3]>>]

\* The world positions of every mesh of every asset, computed once.
WORLD_VERTS == [m \in DOMAIN MODELS |-> [i \in DOMAIN MODELS[m] |-> WorldVerts(m, i)]]

(***************************************************************************)
(* The scene graph.  A mesh handle is <<"bg", 0>> (the background sphere)  *)
(* or <<"model", i>> (the i-th mesh of the loaded model).  Scene.traverse  *)
(* visits the sphere, mounted before the stage, first.                     *)
(***************************************************************************)
NoMesh == <<"none", 0>>

SceneMeshesOf(m, bg) ==
    (IF bg THEN << <<"bg", 0>> >> ELSE << >>) \o
    [i \in 1..Len(MODELS[m]) |-> <<"model", i>>]

SceneMeshes == SceneMeshesOf(selectedModel, background)

\* The world-space vertices of mesh h when asset m is loaded.
MeshVerts(m, h) == IF h[1] = "bg" THEN SphereVerts ELSE WORLD_VERTS[m][h[2]]

MeshMat(h) == IF h[1] = "bg" THEN bgMat ELSE modelMats[h[2]]

\* new Box3().setFromObject(mesh): getSize and getCenter.
BoxSize(m, h) ==
    Bind(MeshVerts(m, h), LAMBDA verts :
        [k \in 1..3 |-> SeqMax(verts, k) - SeqMin(verts, k)])
BoxCenter(m, h) ==
    Bind(MeshVerts(m, h), LAMBDA verts :
        [k \in 1..3 |-> (SeqMin(verts, k) + SeqMax(verts, k)) \div 2])

\* The exact product of two lengths, as three base-10000 digits (it exceeds
\* the machine integers of the model checker, not the doubles of the program).
WideMul(a, b) ==
    LET a1 == a \div 10000  a0 == a % 10000
        b1 == b \div 10000  b0 == b % 10000
        l == a0 * b0
        m == a1 * b0 + a0 * b1 + l \div 10000
        h == a1 * b1 + m \div 10000
    IN  <<h, m % 10000, l % 10000>>

WideGT(x, y) ==
    \/ x[1] > y[1]
    \/ x[1] = y[1] /\ x[2] > y[2]
    \/ x[1] = y[1] /\ x[2] = y[2] /\ x[3] > y[3]

\* const area = size.x * size.y
Area(m, h) == Bind(BoxSize(m, h), LAMBDA size : WideMul(size[1], size[2]))

\* findFacadeMesh, lines 221-239: the traversal from mesh k on, with the
\* running facadeMesh and maxArea.
RECURSIVE FacadeFrom(_, _, _, _, _)
FacadeFrom(m, meshes, k, facadeMesh, maxArea) ==
    IF k > Len(meshes) THEN facadeMesh
    ELSE Bind(Area(m, meshes[k]), LAMBDA area :
            IF WideGT(area, maxArea)
            THEN FacadeFrom(m, meshes, k + 1, meshes[k], area)
            ELSE FacadeFrom(m, meshes, k + 1, facadeMesh, maxArea))

\* findFacadeMesh(scene) for the scene holding asset m, with or without
\* the background sphere.
FacadeOf(m, bg) ==
    Bind(SceneMeshesOf(m, bg), LAMBDA meshes :
        FacadeFrom(m, meshes, 1, NoMesh, <<0, 0, 0>>))

(***************************************************************************)
(* Materials.                                                              *)
(***************************************************************************)
\* What createMaterial returns, as a MeshStandardMaterial: the shading
\* state, no clipping planes, clipShadows off (the constructor's defaults).
NewMaterial(w, s, a, t, fc) ==
    LET sh == createMaterial(w, s, a, t, fc)
    IN  [color |-> sh.color, roughness |-> sh.roughness, metalness |-> sh.metalness,
         envMapIntensity |-> sh.envMapIntensity,
         clippingPlanes |-> << >>, clipShadows |-> FALSE]

\* The material effect reaching the first mesh only: the other meshes keep
\* the material of an untreated new surface.
ApplyMaterialsFirstMeshOnly(m, w, s, a, t, fc) ==
    [i \in 1..Len(MODELS[m]) |->
        IF i = 1 THEN NewMaterial(w, s, a, t, fc)
        ELSE NewMaterial(w, s, 1, "Unbehandelt", NoColor)]

\* CustomModel's material effect (part_004 lines 28-44): every mesh of the
\* model gets a new material made from the current inputs.
ApplyMaterials(m, w, s, a, t, fc) ==
    [i \in 1..Len(MODELS[m]) |-> NewMaterial(w, s, a, t, fc)]

\* <meshBasicMaterial map side transparent opacity>: the sphere's material.
BasicMaterial ==
    [color |-> <<H(100), H(100), H(100)>>, roughness |-> 0, metalness |-> 0,
     envMapIntensity |-> 0, clippingPlanes |-> << >>, clipShadows |-> FALSE]

\* The shading state of a material.
Shading(mat) ==
    [color |-> mat.color, roughness |-> mat.roughness, metalness |-> mat.metalness,
     envMapIntensity |-> mat.envMapIntensity]

(***************************************************************************)
(* Section extraction, toggleClipping lines 334-393.                       *)
(***************************************************************************)
\* The clip height taken 0.5 above the centre of the bounding box.
ClipHeightOfCenter(m, h) ==
    Bind(MeshVerts(m, h), LAMBDA verts :
        (SeqMin(verts, 2) + SeqMax(verts, 2)) \div 2 + LenUnit \div 2)

\* Lines 340-341: bottomY = center.y - size.y / 2, clipHeight = bottomY + 0.5.
\* Centre and half size are kept in halves of a length unit, so it is exact.
ClipHeightOf(m, h) ==
    Bind(MeshVerts(m, h), LAMBDA verts :
        LET lo == SeqMin(verts, 2)
            hi == SeqMax(verts, 2)
            bottomY == ((lo + hi) - (hi - lo)) \div 2
        IN  bottomY + LenUnit \div 2)

\* new Plane(new Vector3(0, -1, 0), clipHeight)
ClippingPlane(clipHeight) == [normal |-> <<0, -1, 0>>, constant |-> clipHeight]

\* Math.abs(y - clipHeight) < 0.01
Tolerance == LenUnit \div 100
\* The test of line 361 without Math.abs.
NearClipSigned(v, clipHeight) == v[2] - clipHeight < Tolerance

NearClip(v, clipHeight) == Abs(v[2] - clipHeight) < Tolerance

\* x.toFixed(4): the sign and the magnitude rounded to 4 decimals.  A value
\* that rounds to zero from below prints "-0.0000", from above "0.0000".
\* (No vertex of MODELS has a fifth decimal of 5, where the double decides.)
toFixed4(x) == <<x < 0, (Abs(x) + 5) \div 10>>

\* `${x.toFixed(4)},${z.toFixed(4)}`
PointKey(v) == <<toFixed4(v[1]), toFixed4(v[3])>>

\* Lines 358-368: the loop over the position attribute from index i on;
\* keys holds the keys seen, points the Map's values in insertion order.
RECURSIVE CollectFrom(_, _, _, _, _)
CollectFrom(verts, i, clipHeight, keys, points) ==
    IF i > Len(verts) THEN points
    ELSE IF NearClip(verts[i], clipHeight) /\ PointKey(verts[i]) \notin keys
         THEN CollectFrom(verts, i + 1, clipHeight,
                          keys \cup {PointKey(verts[i])},
                          Append(points, <<verts[i][1], verts[i][3]>>))
         ELSE CollectFrom(verts, i + 1, clipHeight, keys, points)

uniquePoints(m, h, clipHeight) ==
    Bind(MeshVerts(m, h), LAMBDA verts :
        CollectFrom(verts, 1, clipHeight, {}, << >>))

\* Vector2.distanceToSquared, as an exact wide number.
DistSq(p, q) ==
    LET dx == WideMul(Abs(p[1] - q[1]), Abs(p[1] - q[1]))
        dy == WideMul(Abs(p[2] - q[2]), Abs(p[2] - q[2]))
        l == dx[3] + dy[3]
        m == dx[2] + dy[2] + l \div 10000
    IN  <<dx[1] + dy[1] + m \div 10000, m % 10000, l % 10000>>

\* The search of lines 377-386 with `<=` for `<`: the last of the nearest.
RECURSIVE NearestFromLastOnTies(_, _, _, _, _)
NearestFromLastOnTies(current, remaining, i, nearestIdx, nearestDistSq) ==
    IF i > Len(remaining) THEN nearestIdx
    ELSE IF nearestIdx = 0 \/ ~WideGT(DistSq(current, remaining[i]), nearestDistSq)
         THEN NearestFromLastOnTies(current, remaining, i + 1, i,
                                    DistSq(current, remaining[i]))
         ELSE NearestFromLastOnTies(current, remaining, i + 1, nearestIdx,
                                    nearestDistSq)

\* Lines 377-386: the index of the first remaining point of least squared
\* distance to current; nearestIdx = 0 stands for nearestDistSq = Infinity.
RECURSIVE NearestFrom(_, _, _, _, _)
NearestFrom(current, remaining, i, nearestIdx, nearestDistSq) ==
    IF i > Len(remaining) THEN nearestIdx
    ELSE IF nearestIdx = 0 \/ WideGT(nearestDistSq, DistSq(current, remaining[i]))
         THEN NearestFrom(current, remaining, i + 1, i, DistSq(current, remaining[i]))
         ELSE NearestFrom(current, remaining, i + 1, nearestIdx, nearestDistSq)

RemoveAt(s, k) == [i \in 1..(Len(s) - 1) |-> IF i < k THEN s[i] ELSE s[i + 1]]

\* Lines 375-389: the while loop of the nearest-neighbour chaining.
RECURSIVE Chain(_, _)
Chain(sortedPoints, remainingPoints) ==
    IF Len(remainingPoints) = 0 THEN sortedPoints
    ELSE Bind(NearestFrom(sortedPoints[Len(sortedPoints)], remainingPoints,
                          1, 0, <<0, 0, 0>>), LAMBDA nearestIdx :
         Bind(Append(sortedPoints, remainingPoints[nearestIdx]), LAMBDA sorted :
         Bind(RemoveAt(remainingPoints, nearestIdx), LAMBDA remaining :
            Chain(sorted, remaining))))

\* Lines 370-393: what is handed to onSectionUpdate for the collected points.
PublishedPoints(points) ==
    Bind(points, LAMBDA pts :
        IF Len(pts) > 1 THEN Chain(<<pts[1]>>, Tail(pts)) ELSE << >>)

\* What the handlers compute from the scene graph, for every scene the
\* viewer can hold (asset m, background sphere mounted or not): the selected
\* facade, its bounding box, the clip height and the section polygon.
\* Computed once; the handlers below read the entry of the current scene.
SceneFacts(m, bg) ==
    Bind(FacadeOf(m, bg), LAMBDA f :
        IF f = NoMesh
        THEN [facadeMesh |-> NoMesh]
        ELSE Bind(ClipHeightOf(m, f), LAMBDA clipHeight :
                [facadeMesh |-> f,
                 size |-> BoxSize(m, f),
                 center |-> BoxCenter(m, f),
                 clipHeight |-> clipHeight,
                 points |-> PublishedPoints(uniquePoints(m, f, clipHeight))]))

SCENES == [m \in DOMAIN MODELS |-> [bg \in BOOLEAN |-> SceneFacts(m, bg)]]

CurrentScene == SCENES[selectedModel][background]

findFacadeMesh == CurrentScene.facadeMesh

(***************************************************************************)
(* Camera.                                                                 *)
(***************************************************************************)
Origin == <<0, 0, 0>>

\* camera.position.set(0, 0, 5); camera.lookAt(0, 0, 0)
DefaultCameraPos == <<0, 0, 5 * LenUnit>>
DefaultCameraDir == <<0, 0, 1>>

\* The directions the user can orbit the camera to: front, side, top.
Dirs == {<<0, 0, 1>>, <<1, 0, 0>>, <<0, 1, 0>>}

\* 0.6 / sin(50 degrees / 2) = 1.41972..., in ten-thousandths.
ZoomFactor == 14197

\* handleZoom lines 290-293: |maxDim / sin(fov / 2)| * 0.6
ZoomDistance(maxDim) ==
    (maxDim \div 10000) * ZoomFactor + ((maxDim % 10000) * ZoomFactor) \div 10000

\* <OrbitControls maxDistance={10}>
MaxDistance == 10

\* The distance from the orbit target to the camera (the two always lie on
\* a line along cameraDir).
CameraDistance(pos, target) ==
    Abs(pos[1] - target[1]) + Abs(pos[2] - target[2]) + Abs(pos[3] - target[3])

\* controls.current.update(): the camera is put back on the sphere around
\* the target, its distance clamped to maxDistance.
controlsUpdate(pos, dir, target) ==
    LET d == Min(CameraDistance(pos, target), MaxDistance * LenUnit)
    IN  [k \in 1..3 |-> target[k] + dir[k] * d]

(***************************************************************************)
(* SectionOutlinePanel.  A path coordinate is a fraction <<numerator,      *)
(* denominator>> of a pixel; a scale is a fraction <<pixels, lengths>>.    *)
(***************************************************************************)
width == 200
height == 300
padding == 20
TitleHeight == 24
panelWidth == width - padding * 2
panelHeight == height - padding * 2 - TitleHeight

\* Lines 15-24 and 34-35: the extent of the points.
PointsMin(points, k) == SeqMin(points, k)
PointsRange(points, k) == SeqMax(points, k) - SeqMin(points, k)

\* Lines 36-37: range > 1e-6 ? panel / range : 1.  1e-6 is a tenth of the
\* length unit, and 1 pixel per world unit is 1 pixel per LenUnit lengths.
AxisScale(panel, range) ==
    IF range * (1000000 \div LenUnit) > 1 THEN <<panel, range>> ELSE <<1, LenUnit>>

\* Line 38: Math.min(scaleX, scaleY)
MinScale(scaleX, scaleY) ==
    IF scaleY[1] * scaleX[2] < scaleX[1] * scaleY[2] THEN scaleY ELSE scaleX

\* Lines 41-50 and 78: the coordinates written into the path for point p,
\* over the common denominator 2 * scale[2].
\*   x = (p.x - minX) * scale + (panelWidth - rangeX * scale) / 2 + padding,
\*       drawn at x - padding
\*   y = height - ((p.y - minY) * scale
\*                 + (panelHeight - rangeY * scale) / 2 + padding + 24),
\*       drawn at y - padding - 24
PathPoint(p, minX, minY, rangeX, rangeY, scale) ==
    [x |-> 2 * (p[1] - minX) * scale[1] + panelWidth * scale[2] - rangeX * scale[1],
     y |-> 2 * height * scale[2]
           - (2 * (p[2] - minY) * scale[1] + panelHeight * scale[2] - rangeY * scale[1]
              + 2 * (padding + TitleHeight) * scale[2])
           - 2 * (padding + TitleHeight) * scale[2],
     den |-> 2 * scale[2]]

\* The path coordinates of the panel for a non-empty point list.
PathPoints(points) ==
    Bind(<<PointsMin(points, 1), PointsMin(points, 2),
           PointsRange(points, 1), PointsRange(points, 2)>>, LAMBDA b :
    Bind(MinScale(AxisScale(panelWidth, b[3]), AxisScale(panelHeight, b[4])),
         LAMBDA scale :
            [i \in DOMAIN points |->
                PathPoint(points[i], b[1], b[2], b[3], b[4], scale)]))

(***************************************************************************)
(* State after construction: the first model of the list is loaded and     *)
(* CustomModel's effects have run with the controls' initial values.       *)
(***************************************************************************)
Init ==
    /\ woodType = "Fichte/Tanne"
    /\ surface = "Gehobelt"
    /\ age = 1
    /\ treatment = "Unbehandelt"
    /\ finishColor = NoColor
    /\ effectPending = FALSE
    /\ selectedModel = 2
    /\ modelMats = ApplyMaterials(2, "Fichte/Tanne", "Gehobelt", 1, "Unbehandelt", NoColor)
    /\ background = FALSE
    /\ bgMat = BasicMaterial
    /\ clippingEnabled = FALSE
    /\ closureClipping = FALSE
    /\ sectionPoints = << >>
    /\ panelVisible = FALSE
    /\ cameraPos = DefaultCameraPos
    /\ cameraDir = DefaultCameraDir
    /\ controlsTarget = Origin
    /\ lastOp = [op |-> "init", clip |-> FALSE, found |-> FALSE]

(***************************************************************************)
(* Configuration inputs (FacadeViewer) and CustomModel's material effect.  *)
(***************************************************************************)
\* The values the controls offer in the checked configurations: two
\* species, two finishes, the untreated and the two coloured treatments, the
\* ages 1..MaxUiAge and the first MaxUiColor colours of a palette.
UiWoods == {"Fichte/Tanne", "Lärche"}
UiSurfaces == {"Gehobelt", "Sägerau"}
UiTreatments == {"Unbehandelt", "Lasur (UV-Schutz)", "Deckend (Pigmentiert)"}
MaxUiAge == 2
MaxUiColor == 2

\* Every value createMaterial can be handed: the names of constants.ts and
\* one name outside each map, the slider's ages, every palette colour or none.
MinAge == 1
MaxAge == 10
AllWoods == DOMAIN WOOD_TYPES \cup {"Eiche"}
AllSurfaces == DOMAIN SURFACE_TYPES \cup {"Gebürstet"}
AllTreatments == DOMAIN TREATMENT_TYPES \cup {"Geölt"}
AllColors == Range(LASUR_COLORS) \cup Range(PIGMENT_COLORS) \cup {NoColor}

Palette(t) ==
    IF t = "Lasur (UV-Schutz)" THEN LASUR_COLORS
    ELSE IF t = "Deckend (Pigmentiert)" THEN PIGMENT_COLORS
    ELSE << >>

\* A shading input changes: the component re-renders and CustomModel's
\* effect (part_004 lines 28-44) replaces every model material.
Remat(w, s, a, t, fc, name) ==
    /\ modelMats' = ApplyMaterials(selectedModel, w, s, a, t, fc)
    /\ lastOp' = [op |-> name, clip |-> clippingEnabled, found |-> FALSE]
    /\ UNCHANGED <<sceneVars, sectionVars, cameraVars>>

SetWood(w) ==
    /\ ~effectPending /\ w # woodType
    /\ woodType' = w
    /\ Remat(w, surface, age, treatment, finishColor, "shading")
    /\ UNCHANGED <<surface, age, treatment, finishColor, effectPending>>

SetSurface(s) ==
    /\ ~effectPending /\ s # surface
    /\ surface' = s
    /\ Remat(woodType, s, age, treatment, finishColor, "shading")
    /\ UNCHANGED <<woodType, age, treatment, finishColor, effectPending>>

SetAge(a) ==
    /\ ~effectPending /\ a # age
    /\ age' = a
    /\ Remat(woodType, surface, a, treatment, finishColor, "shading")
    /\ UNCHANGED <<woodType, surface, treatment, finishColor, effectPending>>

\* Behandlung.onChange (part_002 lines 940-943): the render that follows
\* still carries the old finish colour; the colour effect runs after it.
SetTreatment(t) ==
    /\ ~effectPending /\ t # treatment
    /\ treatment' = t
    /\ effectPending' = TRUE
    /\ Remat(woodType, surface, age, t, finishColor, "shading")
    /\ UNCHANGED <<woodType, surface, age, finishColor>>

\* CustomModel rendered with another treatment prop, the colour prop as it is.
SetTreatmentProp(t) ==
    /\ ~effectPending /\ t # treatment
    /\ treatment' = t
    /\ Remat(woodType, surface, age, t, finishColor, "shading")
    /\ UNCHANGED <<woodType, surface, age, finishColor, effectPending>>

\* The effect on selectedTreatment (part_002 lines 976-991); CustomModel's
\* effect runs again only if the colour changed.
FinishColorEffect ==
    /\ effectPending
    /\ effectPending' = FALSE
    /\ LET fc == IF Palette(treatment) = << >> THEN NoColor ELSE Palette(treatment)[1]
       IN  /\ finishColor' = fc
           /\ IF fc # finishColor
              THEN Remat(woodType, surface, age, treatment, fc, "colorEffect")
              ELSE /\ lastOp' = [op |-> "colorEffect", clip |-> clippingEnabled,
                                 found |-> FALSE]
                   /\ UNCHANGED <<modelMats, sceneVars, sectionVars, cameraVars>>
    /\ UNCHANGED <<woodType, surface, age, treatment>>

\* Farbe.onChange (part_002 lines 950-966): a colour of the treatment's palette.
SetColor(c) ==
    /\ ~effectPending /\ c # finishColor
    /\ finishColor' = c
    /\ Remat(woodType, surface, age, treatment, c, "shading")
    /\ UNCHANGED <<woodType, surface, age, treatment, effectPending>>

\* The "Fassade" selection changes (part_002 lines 1054-1061): another asset
\* is loaded and CustomModel's effects run on its scene.
SelectModel(m) ==
    /\ ~effectPending /\ m # selectedModel
    /\ selectedModel' = m
    /\ modelMats' = ApplyMaterials(m, woodType, surface, age, treatment, finishColor)
    /\ lastOp' = [op |-> "selectModel", clip |-> clippingEnabled, found |-> FALSE]
    /\ UNCHANGED <<inputVars, background, bgMat, sectionVars, cameraVars>>

\* The background image is set or cleared, or "Anzeigen" toggled: the sphere
\* mesh is mounted with a new material, or unmounted.
ToggleBackground ==
    /\ ~effectPending
    /\ background' = ~background
    /\ bgMat' = BasicMaterial
    /\ lastOp' = [op |-> "background", clip |-> clippingEnabled, found |-> FALSE]
    /\ UNCHANGED <<inputVars, selectedModel, modelMats, sectionVars, cameraVars>>

(***************************************************************************)
(* SceneController (the handlers the toolbar invokes).                     *)
(***************************************************************************)
\* FacadeViewer.handleSectionUpdate (part_002 lines 1063-1066)
handleSectionUpdate(points, enabled) ==
    /\ sectionPoints' = points
    /\ panelVisible' = enabled

\* The traversal handing every mesh the controller's sectionMaterial (lines
\* 210-219: colour 0.2, roughness 0.4, metalness 0.5) along with the planes.
WithPlanesOnSectionMaterial(mat, planes, shadows) ==
    [color |-> <<H(20), H(20), H(20)>>, roughness |-> H(40), metalness |-> H(50),
     envMapIntensity |-> H(100), clippingPlanes |-> planes, clipShadows |-> shadows]

\* mat.clippingPlanes = ...; mat.clipShadows = ...
WithPlanes(mat, planes, shadows) ==
    [mat EXCEPT !.clippingPlanes = planes, !.clipShadows = shadows]

\* scene.traverse over every mesh with a material, setting its planes.
SetScenePlanes(planes, shadows) ==
    /\ modelMats' = [i \in DOMAIN modelMats |-> WithPlanes(modelMats[i], planes, shadows)]
    /\ bgMat' = IF background THEN WithPlanes(bgMat, planes, shadows) ELSE bgMat

\* handleReset without the traversal of lines 256-269.
handleResetKeepsPlanes ==
    /\ ~effectPending
    /\ cameraDir' = DefaultCameraDir
    /\ controlsTarget' = Origin
    /\ cameraPos' = controlsUpdate(DefaultCameraPos, DefaultCameraDir, Origin)
    /\ IF clippingEnabled
       THEN /\ clippingEnabled' = FALSE
            /\ handleSectionUpdate(<< >>, FALSE)
            /\ UNCHANGED <<modelMats, bgMat>>
       ELSE UNCHANGED <<clippingEnabled, sectionPoints, panelVisible, modelMats, bgMat>>
    /\ closureClipping' = clippingEnabled'
    /\ lastOp' = [op |-> "reset", clip |-> clippingEnabled, found |-> FALSE]
    /\ UNCHANGED <<inputVars, selectedModel, background>>

\* handleReset without the onSectionUpdate([], false) of line 254.
handleResetKeepsSection ==
    /\ ~effectPending
    /\ cameraDir' = DefaultCameraDir
    /\ controlsTarget' = Origin
    /\ cameraPos' = controlsUpdate(DefaultCameraPos, DefaultCameraDir, Origin)
    /\ IF clippingEnabled
       THEN /\ clippingEnabled' = FALSE
            /\ UNCHANGED <<sectionPoints, panelVisible>>
            /\ SetScenePlanes(<< >>, FALSE)
       ELSE UNCHANGED <<clippingEnabled, sectionPoints, panelVisible, modelMats, bgMat>>
    /\ closureClipping' = clippingEnabled'
    /\ lastOp' = [op |-> "reset", clip |-> clippingEnabled, found |-> FALSE]
    /\ UNCHANGED <<inputVars, selectedModel, background>>

\* handleReset, lines 241-277, as created by the render in which
\* clippingEnabled was closure.
handleResetOf(closure) ==
    /\ ~effectPending
    /\ cameraDir' = DefaultCameraDir
    /\ controlsTarget' = Origin
    /\ cameraPos' = controlsUpdate(DefaultCameraPos, DefaultCameraDir, Origin)
    /\ IF closure
       THEN /\ clippingEnabled' = FALSE
            /\ handleSectionUpdate(<< >>, FALSE)
            /\ SetScenePlanes(<< >>, FALSE)
       ELSE UNCHANGED <<clippingEnabled, sectionPoints, panelVisible, modelMats, bgMat>>
    /\ lastOp' = [op |-> "reset", clip |-> clippingEnabled, found |-> FALSE]
    /\ UNCHANGED <<inputVars, selectedModel, background>>

\* reset(), then the render that setClippingEnabled schedules and the effect
\* of lines 440-455, which attaches the handlers of that render.
handleReset ==
    /\ handleResetOf(closureClipping)
    /\ closureClipping' = clippingEnabled'

\* handleZoom whose fallback branch is a call of handleReset.
handleZoomFallbackResets ==
    /\ ~effectPending
    /\ LET facadeMesh == findFacadeMesh
       IN  /\ IF facadeMesh # NoMesh
              THEN LET size == CurrentScene.size
                       center == CurrentScene.center
                       distance == ZoomDistance(Max(size[1], size[2]))
                       pos == [k \in 1..3 |-> center[k] + cameraDir[k] * distance]
                   IN  /\ controlsTarget' = center
                       /\ cameraPos' = controlsUpdate(pos, cameraDir, center)
                       /\ cameraDir' = cameraDir
                       /\ UNCHANGED <<modelMats, bgMat, sectionVars>>
              ELSE /\ cameraDir' = DefaultCameraDir
                   /\ controlsTarget' = Origin
                   /\ cameraPos' = controlsUpdate(DefaultCameraPos, DefaultCameraDir, Origin)
                   /\ IF clippingEnabled
                      THEN /\ clippingEnabled' = FALSE
                           /\ closureClipping' = FALSE
                           /\ handleSectionUpdate(<< >>, FALSE)
                           /\ SetScenePlanes(<< >>, FALSE)
                      ELSE UNCHANGED <<modelMats, bgMat, sectionVars>>
           /\ lastOp' = [op |-> "zoom", clip |-> clippingEnabled,
                         found |-> facadeMesh # NoMesh]
    /\ UNCHANGED <<inputVars, selectedModel, background>>

\* handleZoom whose fallback branch leaves the orbit target where it is
\* (without lines 314-316).
handleZoomFallbackKeepsTarget ==
    /\ ~effectPending
    /\ LET facadeMesh == findFacadeMesh
       IN  /\ IF facadeMesh # NoMesh
              THEN LET size == CurrentScene.size
                       center == CurrentScene.center
                       distance == ZoomDistance(Max(size[1], size[2]))
                       pos == [k \in 1..3 |-> center[k] + cameraDir[k] * distance]
                   IN  /\ controlsTarget' = center
                       /\ cameraPos' = controlsUpdate(pos, cameraDir, center)
                       /\ cameraDir' = cameraDir
              ELSE /\ cameraDir' = DefaultCameraDir
                   /\ controlsTarget' = controlsTarget
                   /\ cameraPos' = DefaultCameraPos
           /\ lastOp' = [op |-> "zoom", clip |-> clippingEnabled,
                         found |-> facadeMesh # NoMesh]
    /\ UNCHANGED <<inputVars, sceneVars, modelMats, sectionVars>>

\* handleZoom, lines 279-320.
handleZoom ==
    /\ ~effectPending
    /\ LET facadeMesh == findFacadeMesh
       IN  /\ IF facadeMesh # NoMesh
              THEN LET size == CurrentScene.size
                       center == CurrentScene.center
                       distance == ZoomDistance(Max(size[1], size[2]))
                       pos == [k \in 1..3 |-> center[k] + cameraDir[k] * distance]
                   IN  /\ controlsTarget' = center
                       /\ cameraPos' = controlsUpdate(pos, cameraDir, center)
                       /\ cameraDir' = cameraDir
              ELSE /\ cameraDir' = DefaultCameraDir
                   /\ controlsTarget' = Origin
                   /\ cameraPos' = controlsUpdate(DefaultCameraPos, DefaultCameraDir, Origin)
           /\ lastOp' = [op |-> "zoom", clip |-> clippingEnabled,
                         found |-> facadeMesh # NoMesh]
    /\ UNCHANGED <<inputVars, sceneVars, modelMats, sectionVars>>

\* toggleClipping, lines 322-427, as created by the render in which
\* clippingEnabled was closure.
toggleClippingOf(closure) ==
    /\ ~effectPending
    /\ LET newClippingState == ~closure
           facadeMesh == findFacadeMesh
       IN  /\ clippingEnabled' = newClippingState
           /\ IF facadeMesh # NoMesh
              THEN LET clipHeight == CurrentScene.clipHeight
                   IN  /\ IF newClippingState
                          THEN handleSectionUpdate(CurrentScene.points, TRUE)
                          ELSE handleSectionUpdate(<< >>, FALSE)
                       /\ IF newClippingState
                          THEN SetScenePlanes(<<ClippingPlane(clipHeight)>>, TRUE)
                          ELSE SetScenePlanes(<< >>, FALSE)
              ELSE /\ IF newClippingState
                      THEN UNCHANGED <<sectionPoints, panelVisible>>
                      ELSE handleSectionUpdate(<< >>, FALSE)
                   /\ UNCHANGED <<modelMats, bgMat>>
           /\ lastOp' = [op |-> "toggle", clip |-> clippingEnabled,
                         found |-> facadeMesh # NoMesh]
    /\ UNCHANGED <<inputVars, selectedModel, background, cameraVars>>

\* toggleClipping(), then the render that setClippingEnabled schedules and
\* the effect of lines 440-455, which attaches the handlers of that render.
toggleClipping ==
    /\ toggleClippingOf(closureClipping)
    /\ closureClipping' = clippingEnabled'

\* The user orbits the camera around the target (OrbitControls).
Orbit(d) ==
    /\ ~effectPending /\ d # cameraDir
    /\ cameraDir' = d
    /\ cameraPos' = [k \in 1..3 |->
                        controlsTarget[k] + d[k] * CameraDistance(cameraPos, controlsTarget)]
    /\ lastOp' = [op |-> "orbit", clip |-> clippingEnabled, found |-> FALSE]
    /\ UNCHANGED <<inputVars, sceneVars, modelMats, sectionVars, controlsTarget>>

(***************************************************************************)
(* Spec: the scene controller.  Toolbar commands, camera orbiting, asset   *)
(* and background changes, and the age slider as the shading input.        *)
(***************************************************************************)
Next ==
    \/ \E a \in MinAge..MaxUiAge : SetAge(a)
    \/ \E m \in DOMAIN MODELS : SelectModel(m)
    \/ ToggleBackground
    \/ handleReset
    \/ handleZoom
    \/ toggleClipping
    \/ \E d \in Dirs : Orbit(d)

Spec == Init /\ [][Next]_vars

(***************************************************************************)
(* SpecUi: the configuration panel.  Every shading control, the treatment  *)
(* change with its colour effect, and the section toggle and reset, on the *)
(* initial asset.                                                          *)
(***************************************************************************)
NextUi ==
    \/ \E w \in UiWoods : SetWood(w)
    \/ \E s \in UiSurfaces : SetSurface(s)
    \/ \E a \in MinAge..MaxUiAge : SetAge(a)
    \/ \E t \in UiTreatments : SetTreatment(t)
    \/ FinishColorEffect
    \/ \E k \in 1..MaxUiColor :
          /\ k <= Len(Palette(treatment))
          /\ SetColor(Palette(treatment)[k])
    \/ toggleClipping
    \/ handleReset

SpecUi == Init /\ [][NextUi]_vars

(***************************************************************************)
(* SpecMat: the appearance model on its whole input space.  The inputs     *)
(* start anywhere and change one at a time; every change applies           *)
(* createMaterial to the new inputs.                                       *)
(***************************************************************************)
InitMat ==
    /\ woodType \in AllWoods
    /\ surface \in AllSurfaces
    /\ age \in MinAge..MaxAge
    /\ treatment \in AllTreatments
    /\ finishColor \in AllColors
    /\ effectPending = FALSE
    /\ selectedModel = 2
    /\ modelMats = ApplyMaterials(2, woodType, surface, age, treatment, finishColor)
    /\ background = FALSE
    /\ bgMat = BasicMaterial
    /\ clippingEnabled = FALSE
    /\ closureClipping = FALSE
    /\ sectionPoints = << >>
    /\ panelVisible = FALSE
    /\ cameraPos = DefaultCameraPos
    /\ cameraDir = DefaultCameraDir
    /\ controlsTarget = Origin
    /\ lastOp = [op |-> "shading", clip |-> FALSE, found |-> FALSE]

NextMat ==
    \/ \E w \in AllWoods : SetWood(w)
    \/ \E s \in AllSurfaces : SetSurface(s)
    \/ \E a \in MinAge..MaxAge : SetAge(a)
    \/ \E t \in AllTreatments : SetTreatmentProp(t)
    \/ \E c \in AllColors : SetColor(c)

SpecMat == InitMat /\ [][NextMat]_vars

(***************************************************************************)
(* SpecToolbar: the toolbar and the controller step by step.  A click runs *)
(* the handler the last attachment effect stored on the controls object;   *)
(* the render of SceneController that setClippingEnabled schedules, and    *)
(* the effect that attaches that render's handlers, is a step of its own.  *)
(***************************************************************************)
\* Any asset is loaded, the controller mounted and its handlers attached.
InitToolbar ==
    /\ woodType = "Fichte/Tanne"
    /\ surface = "Gehobelt"
    /\ age = 1
    /\ treatment = "Unbehandelt"
    /\ finishColor = NoColor
    /\ effectPending = FALSE
    /\ selectedModel \in DOMAIN MODELS
    /\ modelMats = ApplyMaterials(selectedModel, "Fichte/Tanne", "Gehobelt", 1,
                                  "Unbehandelt", NoColor)
    /\ background = FALSE
    /\ bgMat = BasicMaterial
    /\ clippingEnabled = FALSE
    /\ closureClipping = FALSE
    /\ sectionPoints = << >>
    /\ panelVisible = FALSE
    /\ cameraPos = DefaultCameraPos
    /\ cameraDir = DefaultCameraDir
    /\ controlsTarget = Origin
    /\ lastOp = [op |-> "init", clip |-> FALSE, found |-> FALSE]

\* Toolbar.tsx line 52: controls.current.reset()
clickReset ==
    /\ handleResetOf(closureClipping)
    /\ UNCHANGED closureClipping

\* Toolbar.tsx line 96: controls.current.toggleClipping()
clickToggleClipping ==
    /\ toggleClippingOf(closureClipping)
    /\ UNCHANGED closureClipping

\* SceneController renders with the clippingEnabled last set; the cleanup and
\* the effect of lines 440-455 replace the handlers on the controls object.
Rerender ==
    /\ closureClipping # clippingEnabled
    /\ closureClipping' = clippingEnabled
    /\ lastOp' = [op |-> "render", clip |-> clippingEnabled, found |-> FALSE]
    /\ UNCHANGED <<inputVars, sceneVars, modelMats, clippingEnabled, sectionPoints,
                   panelVisible, cameraVars>>

NextToolbar ==
    \/ clickReset
    \/ handleZoom
    \/ clickToggleClipping
    \/ Rerender
    \/ \E d \in Dirs : Orbit(d)

SpecToolbar == InitToolbar /\ [][NextToolbar]_vars

(***************************************************************************)
(* Properties.                                                             *)
(***************************************************************************)
\* The materials of the meshes in the scene, in traversal order.
SceneMats == [k \in DOMAIN SceneMeshes |-> MeshMat(SceneMeshes[k])]

AllPlanesEmpty == \A k \in DOMAIN SceneMats : SceneMats[k].clippingPlanes = << >>
AllPlanesSet == \A k \in DOMAIN SceneMats : SceneMats[k].clippingPlanes # << >>

\* The clip-plane lists of the model's materials.
ModelPlanes == [i \in DOMAIN modelMats |-> modelMats[i].clippingPlanes]

\* C1: whenever the controller's clipping state is true, every material of
\* every mesh in the scene carries a non-empty clip-plane list and a section
\* polygon is published with visibility true.
C1_SectionedMeansClipped ==
    clippingEnabled => (AllPlanesSet /\ panelVisible)

\* C2: every toggleSection() from Sectioned to Idle leaves every material in
\* the scene with an empty clip-plane list, whether or not a facade mesh was
\* found by that toggle.
C2_ToggleOffClearsPlanes ==
    (lastOp.op = "toggle" /\ lastOp.clip) => AllPlanesEmpty

\* C3: a change of wood species, surface finish, treatment, finish colour or
\* age while the controller is Sectioned leaves the clip planes of every
\* model material and the published section polygon unchanged.
C3_ShadingKeepsSection ==
    [][(clippingEnabled /\ lastOp'.op \in {"shading", "colorEffect"})
          => (ModelPlanes' = ModelPlanes /\ sectionPoints' = sectionPoints)]_vars

\* C4: reset() puts the camera at (0,0,5) looking at the origin; from
\* Sectioned it also clears every material's clip-plane list, publishes an
\* empty polygon with visibility false and moves the controller to Idle; a
\* second reset() changes nothing further.
C4_AfterReset ==
    lastOp.op = "reset" =>
        /\ cameraPos = <<0, 0, 5 * LenUnit>>
        /\ cameraDir = <<0, 0, 1>>
        /\ controlsTarget = <<0, 0, 0>>
        /\ ~clippingEnabled
        /\ lastOp.clip => (AllPlanesEmpty /\ sectionPoints = << >> /\ ~panelVisible)

C4_SecondResetIdle ==
    (lastOp.op = "reset" /\ lastOp'.op = "reset") =>
        UNCHANGED <<inputVars, sceneVars, modelMats, sectionVars, cameraVars>>

C5_ToggleWithoutFacadeIsNoOp ==
    [][(lastOp'.op = "toggle" /\ ~lastOp'.found)
          => UNCHANGED <<clippingEnabled, modelMats, bgMat, sectionPoints, panelVisible>>]_vars

(***************************************************************************)
(* Properties of the appearance model.  The staged reference below is      *)
(* written from the stated algorithm: percentages of a blend, offsets in   *)
(* hundredths, factors in tenths.                                          *)
(***************************************************************************)
ValidNames ==
    /\ woodType \in {"Fichte/Tanne", "Lärche", "Douglasie"}
    /\ surface \in {"Geschliffen", "Sägerau", "Gerillt", "Gehobelt"}
    /\ treatment \in {"Unbehandelt", "Vorvergraut", "Lasur (UV-Schutz)",
                      "Deckend (Pigmentiert)", "Hydrophobiert", "Thermisch behandelt"}

NeedsColor == treatment \in {"Lasur (UV-Schutz)", "Deckend (Pigmentiert)"}

\* The shading state every model mesh carries is sh.
EveryMeshHas(sh) ==
    /\ modelMats # << >>
    /\ \A i \in DOMAIN modelMats : Shading(modelMats[i]) = sh

Hundredths(n) == (n * Scale) \div 100
Clamp01(x) == IF x < 0 THEN 0 ELSE IF x > Scale THEN Scale ELSE x
BlendPct(c, target, pct) == [i \in 1..3 |-> c[i] + ((target[i] - c[i]) * pct) \div 100]
Rgb(r, g, b) == <<Hundredths(r), Hundredths(g), Hundredths(b)>>

RefSpeciesColor ==
    IF woodType = "Fichte/Tanne" THEN Rgb(80, 70, 50)
    ELSE IF woodType = "Lärche" THEN Rgb(75, 60, 40)
    ELSE Rgb(70, 50, 30)

\* <<roughness, metalness, reflection>> of the finish, in hundredths.
RefFinishTriple ==
    IF surface = "Gehobelt" THEN <<40, 10, 120>>
    ELSE IF surface = "Sägerau" THEN <<90, 2, 50>>
    ELSE IF surface = "Gerillt" THEN <<75, 5, 80>>
    ELSE <<55, 8, 100>>

\* <<blend percentage, roughness offset, metalness offset, reflection factor
\* in tenths>> of the treatment; Hydrophobic scales the colour instead.
RefTreatment ==
    CASE treatment = "Vorvergraut" -> <<70, 15, -2, 7>>
      [] treatment = "Lasur (UV-Schutz)" -> <<40, -10, 5, 12>>
      [] treatment = "Deckend (Pigmentiert)" -> <<85, -20, 8, 13>>
      [] treatment = "Hydrophobiert" -> <<0, -15, 10, 14>>
      [] treatment = "Thermisch behandelt" -> <<60, 10, 6, 9>>
      [] OTHER -> <<0, 0, 0, 10>>

RefTreatmentTarget ==
    CASE treatment = "Vorvergraut" -> Rgb(75, 75, 77)
      [] treatment = "Thermisch behandelt" -> Rgb(30, 20, 15)
      [] NeedsColor /\ finishColor # NoColor -> ColorOfHex(finishColor)
      [] OTHER -> RefSpeciesColor

\* Base, then the finish triple, then the treatment on that running state.
\* blend = FALSE leaves the colour blend out and keeps the other adjustments.
RefStaged(blend) ==
    LET c0 == RefSpeciesColor
        c1 == IF treatment = "Hydrophobiert"
              THEN [i \in 1..3 |-> (c0[i] * 95) \div 100]
              ELSE IF blend THEN BlendPct(c0, RefTreatmentTarget, RefTreatment[1])
              ELSE c0
    IN  [color |-> c1,
         roughness |-> Clamp01(Hundredths(RefFinishTriple[1] + RefTreatment[2])),
         metalness |-> Clamp01(Hundredths(RefFinishTriple[2] + RefTreatment[3])),
         envMapIntensity |-> (Hundredths(RefFinishTriple[3]) * RefTreatment[4]) \div 10]

\* C6: for every species, finish, treatment, finish colour (or none) and age
\* in 1..10, createMaterial returns roughness and metalness in [0,1] and a
\* reflection intensity >= 0.
C6_ClampInvariant ==
    \A i \in DOMAIN modelMats :
        /\ 0 <= modelMats[i].roughness /\ modelMats[i].roughness <= Scale
        /\ 0 <= modelMats[i].metalness /\ modelMats[i].metalness <= Scale
        /\ modelMats[i].envMapIntensity >= 0

\* C6 witness: a material whose roughness sits on the upper clamp and whose
\* metalness sits on the lower one (rough finish, pre-aged, ten years).
C6_ClampsActive ==
    /\ surface = "Sägerau" /\ treatment = "Vorvergraut" /\ age = MaxAge
    /\ EveryMeshHas(Shading(modelMats[1]))
    /\ modelMats[1].roughness = Scale /\ modelMats[1].metalness = 0

\* C7: at age 1, for every species, finish and treatment (a finish colour
\* supplied for Glazed and Opaque), createMaterial's result is the staged
\* reference: species base colour, the finish's triple, then the treatment's
\* adjustments on that running state, hard-clamped to [0,1].
C7_StagedAtAgeOne ==
    (age = 1 /\ ValidNames /\ (NeedsColor => finishColor # NoColor))
        => EveryMeshHas(RefStaged(TRUE))

\* C7 witness: an opaque finish with a pigment on a rough surface at age 1.
C7_OpaqueRoughAtAgeOne ==
    /\ age = 1 /\ woodType = "Douglasie" /\ surface = "Sägerau"
    /\ treatment = "Deckend (Pigmentiert)" /\ finishColor = PIGMENT_COLORS[6]
    /\ EveryMeshHas(RefStaged(TRUE))

\* C8: with treatment Glazed or Opaque and no finish colour, createMaterial
\* skips only the colour blend and still applies the treatment's roughness,
\* metalness and reflection adjustments (seen at age 1, where the result is
\* the treatment-stage state).
C8_NoColorKeepsAdjustments ==
    (age = 1 /\ ValidNames /\ NeedsColor /\ finishColor = NoColor)
        => EveryMeshHas(RefStaged(FALSE))

\* The treatment's aging multiplier m, in tenths.
RefAgingTenths ==
    CASE treatment = "Vorvergraut" -> 12
      [] treatment \in {"Lasur (UV-Schutz)", "Hydrophobiert"} -> 6
      [] treatment = "Deckend (Pigmentiert)" -> 4
      [] OTHER -> 10

GreyTarget == Rgb(70, 70, 72)

\* The stated aging on the treatment-stage state st, with
\* agingIntensity = ((age - 1) / 9) * m = x / 90 for x = (age - 1) * 10m.
RefAging(st) ==
    LET x == (age - 1) * RefAgingTenths
    IN  IF age > 1
        THEN [color |-> [i \in 1..3 |-> st.color[i] + ((GreyTarget[i] - st.color[i]) * x) \div 90],
              roughness |-> Min(st.roughness + (Scale \div 300) * x, Scale),
              metalness |-> Max(st.metalness - (Scale \div 1800) * x, 0),
              envMapIntensity |-> (st.envMapIntensity \div 300) * (300 - x)]
        ELSE st

\* C9: aging is applied exactly when age > 1, with agingIntensity =
\* ((age-1)/9) * m (m = 1.2 PreAged, 0.6 Glazed and Hydrophobic, 0.4 Opaque,
\* 1.0 otherwise): the colour is blended toward (0.7, 0.7, 0.72) by it,
\* roughness rises by 0.3 of it (capped at 1), metalness falls by 0.05 of it
\* (floored at 0), reflection is scaled by 1 - 0.3 of it; at age 1 the
\* result is the treatment-stage state.
C9_AgingStage ==
    EveryMeshHas(RefAging(TreatedState(woodType, surface, treatment, finishColor)))

\* C9 witness: a pre-aged material at five years, aged as stated and
\* different from its treatment-stage state.
C9_PreAgedAtFive ==
    /\ age = 5 /\ treatment = "Vorvergraut"
    /\ EveryMeshHas(RefAging(TreatedState(woodType, surface, treatment, finishColor)))
    /\ ~EveryMeshHas(TreatedState(woodType, surface, treatment, finishColor))

\* C10: with species, finish, treatment and finish colour fixed, a step of
\* the age by one year never increases the distance of any colour channel
\* from the grey target (0.7, 0.7, 0.72).
C10_GreyDistanceNeverGrows ==
    [][(age' = age + 1 /\ UNCHANGED <<woodType, surface, treatment, finishColor>>)
          => \A i \in DOMAIN modelMats : \A ch \in 1..3 :
                Abs(modelMats'[i].color[ch] - GreyTarget[ch])
                    <= Abs(modelMats[i].color[ch] - GreyTarget[ch])]_vars

(***************************************************************************)
(* Properties of facade selection and section extraction.                  *)
(***************************************************************************)
\* The footprint area of the k-th mesh of the current scene.
AreaOfMesh(k) == Area(selectedModel, SceneMeshes[k])

\* C11: facade selection returns the mesh of largest footprint area
\* (size.x * size.y) among all meshes of the scene, the first one visited
\* when several share the largest area.
C11_LargestAreaFirstVisited ==
    SceneMeshes # << >> =>
        \E k \in DOMAIN SceneMeshes :
            /\ findFacadeMesh = SceneMeshes[k]
            /\ \A j \in DOMAIN SceneMeshes : ~WideGT(AreaOfMesh(j), AreaOfMesh(k))
            /\ \A j \in 1..(k - 1) : WideGT(AreaOfMesh(k), AreaOfMesh(j))

\* The section has just been toggled on and a facade was found.
ToggledOnWithFacade == lastOp.op = "toggle" /\ ~lastOp.clip /\ lastOp.found

\* The world-space vertices of the facade of the current scene, their
\* lowest and highest Y, and bottomY + 0.5.
FacadeVerts == MeshVerts(selectedModel, findFacadeMesh)
FacadeBottom == SeqMin(FacadeVerts, 2)
FacadeTop == SeqMax(FacadeVerts, 2)
FacadeClipHeight == FacadeBottom + LenUnit \div 2

\* The facade is a box: its vertices are the eight corners of its bounds.
FacadeIsBox ==
    /\ Len(FacadeVerts) = 8
    /\ Range(FacadeVerts) =
          Range(BoxVerts(SeqMin(FacadeVerts, 1), SeqMax(FacadeVerts, 1),
                         FacadeBottom, FacadeTop,
                         SeqMin(FacadeVerts, 3), SeqMax(FacadeVerts, 3)))

FootprintCorners ==
    {<<x, z>> : x \in {SeqMin(FacadeVerts, 1), SeqMax(FacadeVerts, 1)},
                z \in {SeqMin(FacadeVerts, 3), SeqMax(FacadeVerts, 3)}}

\* Four corners of a rectangle in an order whose closed outline has no
\* crossing edges: every point and its successor share a coordinate.
SimpleOutline(p) ==
    \A i \in 1..Len(p) :
        \/ p[i][1] = p[(i % Len(p)) + 1][1]
        \/ p[i][2] = p[(i % Len(p)) + 1][2]

\* C12: for a box facade whose clip height bottomY + 0.5 lies strictly
\* between its bottom and its top, the section toggled on publishes exactly
\* the 4 corners of the box's (X,Z) footprint, in an order whose closed
\* outline has no self-intersecting edges.
C12_BoxSectionIsFootprint ==
    (/\ ToggledOnWithFacade /\ FacadeIsBox
     /\ FacadeBottom < FacadeClipHeight /\ FacadeClipHeight < FacadeTop)
        => /\ Len(sectionPoints) = 4
           /\ Range(sectionPoints) = FootprintCorners
           /\ SimpleOutline(sectionPoints)

\* C13: when extraction finds zero or exactly one deduplicated point, that
\* sequence is published as it is (empty, or holding the single point), with
\* visibility true.
C13_DegeneratePublishedAsIs ==
    (/\ ToggledOnWithFacade
     /\ Len(uniquePoints(selectedModel, findFacadeMesh, FacadeClipHeight)) <= 1)
        => /\ sectionPoints = uniquePoints(selectedModel, findFacadeMesh, FacadeClipHeight)
           /\ panelVisible

\* C14 as stated: if every vertex of the facade lies strictly below the clip
\* height, or every vertex strictly above it, the polygon published on
\* toggling the section on is empty.
C14_StrictlyBelowOrAboveIsEmpty ==
    (/\ ToggledOnWithFacade
     /\ \/ \A i \in DOMAIN FacadeVerts : FacadeVerts[i][2] < FacadeClipHeight
        \/ \A i \in DOMAIN FacadeVerts : FacadeVerts[i][2] > FacadeClipHeight)
        => sectionPoints = << >>

\* Every vertex of the facade is the tolerance 0.01 or more below the clip
\* height, or every vertex is 0.01 or more above it.
FacadeClearOfClipHeight ==
    \/ \A i \in DOMAIN FacadeVerts : FacadeVerts[i][2] <= FacadeClipHeight - Tolerance
    \/ \A i \in DOMAIN FacadeVerts : FacadeVerts[i][2] >= FacadeClipHeight + Tolerance

\* C14 amended: if every vertex of the facade lies 0.01 or more below the
\* clip height, or every vertex 0.01 or more above it, the polygon published
\* on toggling the section on is empty.
C14_ClearOfClipHeightIsEmpty ==
    (ToggledOnWithFacade /\ FacadeClearOfClipHeight) => sectionPoints = << >>

\* C14 witness: the section has been toggled on for a facade that ends 0.1
\* below its clip height, and the published polygon is empty.
C14_LowSillToggledOn ==
    /\ ToggledOnWithFacade /\ FacadeClearOfClipHeight
    /\ FacadeTop = FacadeClipHeight - LenUnit \div 10
    /\ sectionPoints = << >> /\ panelVisible

(***************************************************************************)
(* Properties of the controller's commands.                                *)
(***************************************************************************)
C15_PolygonOnlyWhileSectioned == sectionPoints # << >> => clippingEnabled

C15_PublishedByToggleWithFacade ==
    (sectionPoints' # << >> /\ sectionPoints' # sectionPoints)
        => (lastOp'.op = "toggle" /\ lastOp'.found /\ clippingEnabled')

\* C15: initially the published polygon is empty; in every reachable state
\* it is non-empty only if the clipping state is true; and a non-empty
\* polygon is only ever published by a toggle that found a facade mesh.
C15_SectionPolygon ==
    /\ sectionPoints = << >>
    /\ []C15_PolygonOnlyWhileSectioned
    /\ [][C15_PublishedByToggleWithFacade]_vars

\* C15 witness: a toggle that found a facade has published a non-empty
\* polygon and the controller is Sectioned.
C15_PolygonPublished ==
    /\ ToggledOnWithFacade /\ clippingEnabled
    /\ Len(sectionPoints) >= 2 /\ panelVisible

\* C16: zoomToFit() in any state leaves the clipping state, every material
\* (so every clip-plane list) and the published polygon unchanged; of the
\* program's state only the camera pose and the orbit target change.
C16_ZoomChangesOnlyCamera ==
    [][lastOp'.op = "zoom"
          => UNCHANGED <<clippingEnabled, modelMats, bgMat, sectionPoints,
                         panelVisible, inputVars, selectedModel, background>>]_vars

\* C16 witness: zoomToFit() has run while Sectioned, with the plane on
\* every material and a polygon shown, and has moved the orbit target.
C16_ZoomedWhileSectioned ==
    /\ lastOp.op = "zoom" /\ lastOp.found /\ lastOp.clip
    /\ clippingEnabled /\ AllPlanesSet /\ sectionPoints # << >>
    /\ controlsTarget # Origin

\* C17: toggleSection() in either direction leaves colour, roughness,
\* metalness and reflection intensity of every material unchanged.
C17_ToggleKeepsShading ==
    [][lastOp'.op = "toggle"
          => /\ DOMAIN modelMats' = DOMAIN modelMats
             /\ \A i \in DOMAIN modelMats :
                    Shading(modelMats'[i]) = Shading(modelMats[i])
             /\ Shading(bgMat') = Shading(bgMat)]_vars

\* C17 witness: the section has been toggled on, every material of a
\* two-mesh scene carries the plane and the model's shading is that of the
\* current inputs.
C17_ToggledOnShaded ==
    /\ ToggledOnWithFacade /\ AllPlanesSet /\ Len(SceneMeshes) >= 2
    /\ EveryMeshHas(createMaterial(woodType, surface, age, treatment, finishColor))

\* C18: when zoomToFit() finds no facade mesh, the camera is put at
\* (0,0,5) looking at the origin and the orbit target is the origin.
C18_ZoomFallback ==
    (lastOp.op = "zoom" /\ ~lastOp.found)
        => /\ cameraPos = <<0, 0, 5 * LenUnit>>
           /\ cameraDir = <<0, 0, 1>>
           /\ controlsTarget = <<0, 0, 0>>

\* C18 witness: zoomToFit() has run on a scene that has a mesh but no
\* facade (the flat panel) and the camera is at its default pose.
C18_ZoomedWithoutFacade ==
    /\ lastOp.op = "zoom" /\ ~lastOp.found /\ SceneMeshes # << >>
    /\ cameraPos = <<0, 0, 5 * LenUnit>> /\ controlsTarget = <<0, 0, 0>>

C19_ZoomPose ==
    (lastOp.op = "zoom" /\ lastOp.found)
        => /\ controlsTarget = CurrentScene.center
           /\ cameraPos =
                 [k \in 1..3 |->
                     CurrentScene.center[k] + cameraDir[k] *
                        ZoomDistance(Max(CurrentScene.size[1], CurrentScene.size[2]))]

C19_ZoomKeepsDirection ==
    (lastOp'.op = "zoom" /\ lastOp'.found)
        => /\ cameraDir' = cameraDir
           /\ (lastOp.op = "zoom" /\ lastOp.found) => UNCHANGED cameraVars

\* C19: when zoomToFit() finds a facade, the camera ends at the bounding-box
\* centre minus d times the viewing direction (cameraDir is the opposite of
\* the viewing direction), d = |max(sizeX, sizeY) / sin(fov/2)| * 0.6, and
\* the orbit target is the centre; the viewing direction is unchanged, and
\* a second zoomToFit() leaves the pose unchanged.
C19_ZoomToFit == []C19_ZoomPose /\ [][C19_ZoomKeepsDirection]_vars

C21_EveryMeshCurrentShading ==
    /\ Len(modelMats) = Len(MODELS[selectedModel])
    /\ \A i \in DOMAIN modelMats :
          /\ {"color", "roughness", "metalness", "envMapIntensity"}
                \subseteq DOMAIN modelMats[i]
          /\ Shading(modelMats[i]) =
                createMaterial(woodType, surface, age, treatment, finishColor)

\* C21 witness: the age has just been changed to 2 on the asset of two
\* meshes, and both carry the shading state of the new inputs.
C21_TwoMeshesReshaded ==
    /\ lastOp.op = "shading" /\ age = 2 /\ Len(modelMats) = 2
    /\ EveryMeshHas(createMaterial(woodType, surface, 2, treatment, finishColor))
    /\ createMaterial(woodType, surface, 2, treatment, finishColor)
          # createMaterial(woodType, surface, 1, treatment, finishColor)

\* The treatment changes the roughness, metalness and reflection of the
\* state it is applied to: it is a known treatment other than Untreated,
\* and Glazed or Opaque has its finish colour.
TreatmentAdjusts ==
    /\ treatment \in DOMAIN TREATMENT_TYPES
    /\ treatment # "Unbehandelt"
    /\ NeedsColor => finishColor # NoColor

\* C22: the Surface stage and the Treatment stage do not commute: for the
\* finish Rough with the treatment Hydrophobic, and with them for every
\* known finish and every treatment that adjusts the triple, applying the
\* treatment before the surface stage gives at least one output field
\* different from createMaterial's surface-then-treatment result.
C22_StagesDoNotCommute ==
    (surface \in DOMAIN SURFACE_TYPES /\ TreatmentAdjusts)
        => \A i \in DOMAIN modelMats :
              Shading(modelMats[i]) #
                 AgingStage(TreatedStateSwapped(woodType, surface, treatment,
                                                finishColor), age, treatment)

\* C22 witness: Rough with Hydrophobic on new wood.  createMaterial gives
\* roughness 0.9 - 0.15 = 0.75; the swapped order gives the finish's 0.9.
C22_RoughHydrophobic ==
    /\ surface = "Sägerau" /\ treatment = "Hydrophobiert" /\ age = 1
    /\ modelMats # << >> /\ modelMats[1].roughness = Hundredths(75)
    /\ TreatedStateSwapped(woodType, surface, treatment, finishColor).roughness
          = Hundredths(90)

(***************************************************************************)
(* Properties of the section polygon.                                      *)
(***************************************************************************)
\* The points collected for the facade of the current scene (the values of
\* the uniquePoints map, in insertion order).
FacadeUniquePoints == uniquePoints(selectedModel, findFacadeMesh, FacadeClipHeight)

\* The collection index of a collected point.
IndexIn(pts, q) == CHOOSE j \in DOMAIN pts : pts[j] = q

\* C23: for two or more deduplicated points, the published polygon is a
\* permutation of them whose first element is the first point in collection
\* order and in which each later element is a point of minimum squared
\* distance to its predecessor among the points not yet placed, the one of
\* lowest collection index on ties; every point is placed exactly once.
C23_NearestNeighbourChain ==
    ToggledOnWithFacade =>
        Bind(FacadeUniquePoints, LAMBDA pts :
            Len(pts) >= 2 =>
                /\ Len(sectionPoints) = Len(pts)
                /\ Range(sectionPoints) = Range(pts)
                /\ Cardinality(Range(sectionPoints)) = Len(pts)
                /\ sectionPoints[1] = pts[1]
                /\ \A k \in 2..Len(pts) : \A j \in DOMAIN pts :
                      pts[j] \notin {sectionPoints[i] : i \in 1..(k - 1)} =>
                         /\ ~WideGT(DistSq(sectionPoints[k - 1], sectionPoints[k]),
                                    DistSq(sectionPoints[k - 1], pts[j]))
                         /\ DistSq(sectionPoints[k - 1], sectionPoints[k])
                               = DistSq(sectionPoints[k - 1], pts[j])
                            => IndexIn(pts, sectionPoints[k]) <= j)

\* C23 witness: the section of the square post, whose first corner has two
\* nearest neighbours; the chain takes the one collected first.
C23_SquarePostChained ==
    /\ ToggledOnWithFacade /\ selectedModel = 9
    /\ sectionPoints = << <<-10000, -10000>>, <<10000, -10000>>,
                          <<10000, 10000>>, <<-10000, 10000>> >>

\* A length rounded to 4 decimals, as a number of ten-thousandths (minus
\* zero and zero are the same number).
Round4(x) == IF x < 0 THEN 0 - ((Abs(x) + 5) \div 10) ELSE (x + 5) \div 10
RoundedPair(p) == <<Round4(p[1]), Round4(p[2])>>

\* The (X,Z) of the facade's vertices within the tolerance of the clip
\* height, by vertex index.
NearIndices ==
    {i \in DOMAIN FacadeVerts : Abs(FacadeVerts[i][2] - FacadeClipHeight) < Tolerance}
VertexXZ(i) == <<FacadeVerts[i][1], FacadeVerts[i][3]>>

\* C24: the collected point set holds exactly one point per distinct pair
\* (X rounded to 4 decimals, Z rounded to 4 decimals) among the facade's
\* world-space vertices whose Y is within 0.01 of the clip height: every
\* such vertex is represented by the first-collected vertex of its pair, no
\* two collected points share a pair, and every point comes from such a
\* vertex.
C24_OnePointPerRoundedPair ==
    ToggledOnWithFacade =>
        Bind(FacadeUniquePoints, LAMBDA pts :
            /\ \A i \in NearIndices :
                  \E j \in DOMAIN pts :
                     /\ RoundedPair(pts[j]) = RoundedPair(VertexXZ(i))
                     /\ \E f \in NearIndices :
                           /\ pts[j] = VertexXZ(f)
                           /\ \A g \in NearIndices :
                                 RoundedPair(VertexXZ(g)) = RoundedPair(pts[j]) => f <= g
            /\ \A j, k \in DOMAIN pts :
                  j # k => RoundedPair(pts[j]) # RoundedPair(pts[k])
            /\ \A j \in DOMAIN pts : \E i \in NearIndices : pts[j] = VertexXZ(i))

\* C25: on every toggle from Idle to Sectioned that finds a facade, the clip
\* height is bottomY + 0.5 of the bounding box of the facade selected at
\* that moment (not a height kept from an earlier toggle), and every
\* material in the scene receives a clip-plane list holding exactly one
\* plane, of normal (0,-1,0) and offset equal to that clip height.
C25_FreshPlaneOnEveryMaterial ==
    ToggledOnWithFacade =>
        \A k \in DOMAIN SceneMats :
            /\ SceneMats[k].clippingPlanes =
                  << [normal |-> <<0, -1, 0>>, constant |-> FacadeBottom + LenUnit \div 2] >>
            /\ SceneMats[k].clipShadows

\* C25 witness: the section is toggled on for the low sill (bottom -0.25,
\* plane at 0.25) in the state reached from the wall panel (plane at -1.0).
C25_PlaneOfLowSill ==
    /\ ToggledOnWithFacade /\ selectedModel = 3 /\ ~background
    /\ modelMats[1].clippingPlanes =
          << [normal |-> <<0, -1, 0>>, constant |-> LenUnit \div 4] >>

(***************************************************************************)
(* Properties of the toolbar commands.                                     *)
(***************************************************************************)
C26_ToggleFlips == lastOp'.op = "toggle" => clippingEnabled' = ~clippingEnabled

C26_ResetAfterToggleOnClears ==
    (lastOp.op = "toggle" /\ clippingEnabled /\ lastOp'.op = "reset")
        => /\ ~clippingEnabled'
           /\ \A i \in DOMAIN modelMats : modelMats'[i].clippingPlanes = << >>

\* C26: the toolbar commands act on the controller's current clipping
\* state however they interleave with the render and re-attachment step:
\* each toggleSection() flips the clipping state the previous command left,
\* and a reset() that follows a toggle-on clears the clip planes even when
\* no render has happened in between.
C26_CommandsSeeCurrentState ==
    [][C26_ToggleFlips /\ C26_ResetAfterToggleOnClears]_vars

\* C27: across any sequence of treatment and colour selections, no material
\* is computed with the treatment Glazed and a finish colour outside the
\* glaze palette (or none), nor with Opaque and a finish colour outside the
\* pigment palette (or none); this includes the render that follows a
\* treatment change and precedes the finish-colour effect.
C27_FinishColourOfPalette ==
    EveryMeshHas(createMaterial(woodType, surface, age, treatment, finishColor))
        => /\ treatment = "Lasur (UV-Schutz)" => finishColor \in Range(LASUR_COLORS)
           /\ treatment = "Deckend (Pigmentiert)" => finishColor \in Range(PIGMENT_COLORS)

(***************************************************************************)
(* Properties of facade selection in the mounted scene.                    *)
(***************************************************************************)
\* C28: the mesh zoomToFit() and toggleSection() choose as the facade is
\* always a mesh of the loaded model, never an auxiliary mesh of the scene
\* such as the displayed background sphere.
C28_FacadeIsModelMesh ==
    (lastOp.op \in {"zoom", "toggle"} /\ lastOp.found) => findFacadeMesh[1] = "model"

\* C29: facade selection returns no mesh only if the scene holds no mesh
\* with geometry: whenever a command runs on a scene with at least one
\* mesh, also one whose meshes all have zero footprint area, it finds one.
C29_MeshFoundWheneverOneExists ==
    (lastOp.op \in {"zoom", "toggle"} /\ SceneMeshes # << >>) => lastOp.found

(***************************************************************************)
(* Properties of the section outline panel.                                *)
(***************************************************************************)
\* C30: for every non-empty point list the panel shows, every drawn path
\* coordinate lies inside the SVG viewBox, x in [0, 160] and y in [0, 236],
\* whatever the extent of the points.
C30_PathInsideViewBox ==
    (panelVisible /\ sectionPoints # << >>) =>
        Bind(PathPoints(sectionPoints), LAMBDA path :
            \A i \in DOMAIN path :
                /\ 0 <= path[i].x /\ path[i].x <= 160 * path[i].den
                /\ 0 <= path[i].y /\ path[i].y <= 236 * path[i].den)

====
